---- MODULE Spec2Model ----
(***************************************************************************)
(* The XY2-100 high level analyzer (src/HighLevelAnalyzer.py, class Hla):  *)
(* the SYNC-framed bit accumulator of Hla.decode and the classification    *)
(* and parity check of Hla._decode_channel.                                *)
(*                                                                         *)
(* Conventions.                                                            *)
(*  - A Python value that may be None is a sequence of length at most 1:   *)
(*    None is << >> and a present value v is << v >>.                      *)
(*  - A Python str built by an f-string is the sequence of its pieces,     *)
(*    formatted numbers being one character per digit.                     *)
(*  - Time values are exact rationals with denominator num_channels, held  *)
(*    as their numerators: an event time of t ticks is t * num_channels,   *)
(*    so the division by num_channels of Hla.decode is exact, as it is in  *)
(*    real arithmetic.  Rounding of a floating-point time is not modelled. *)
(***************************************************************************)
EXTENDS Integers, Sequences, FiniteSets, TLC

\* The length of a frame, in bits (the completion test of Hla.decode).
FrameBits == 20
\* The number of time slots a frame window is divided into.
num_channels == 3

\* The width of the header field of a word (the mask 0b111).
HeaderBits == 3

\* Bounds of the model.
\* At most MaxOnes data bits of one frame window (the three channels taken
\* together) are 1,
MaxOnes == 3
\* and they are among the HeaderBits first and the LowBits last of the window.
LowBits == 2
\* Event times are whole ticks in 0..MaxTick.
MaxTick == 2
\* The words handed to _decode_channel on its own have their header bits and
\* their DecodeLowBits low bits free.
DecodeLowBits == 5

None == << >>
Some(v) == << v >>

VARIABLES
    hla,          \* the Hla instance: its fields
    ret,          \* what hla.decode returned in the latest step (None when
                  \*   the step did not call it)
    twin,         \* a second Hla instance, fed the same stream plus insertions
    twin_ret,     \* what twin.decode returned in the latest step
    call,         \* a call of _decode_channel on its own and its result
    n_data,       \* observer: data events delivered to hla so far, up to 2
    seen_low,     \* observer: some data event so far had SYNC = 0
    last_sync,    \* observer: the SYNC bit of the latest data event
    latest_edge,  \* observer: whether the latest SYNC rising edge is the one
                  \*   that opened the frame window ("start"), a later one
                  \*   ("inside"), or there was none yet ("none")
    start_log,    \* observer: the data values of the events since, and
                  \*   including, the latest rising edge seen in IDLE
    window_start, \* observer: the start time of that rising-edge event
    clock,        \* observer: the end time of the latest event
    done_end,     \* observer: the latest end time of the records returned
                  \*   by the calls before the latest one (0 when none)
    stream_pos,   \* observer: how far the data events follow a stream of
                  \*   back-to-back frames (StreamNext); -1 when they do not
    inserted      \* observer: "no" event was inserted into twin's stream so
                  \*   far, or all were inserted "after_low" (twin's previous
                  \*   SYNC bit was 0), or some at an "other" point; for an
                  \*   event that is not a data sample, where the latest was
                  \*   inserted: "at_first", "in_idle" or "in_frame"

vars == << hla, ret, twin, twin_ret, call, n_data, seen_low, last_sync,
           latest_edge, start_log, window_start, clock, done_end,
           stream_pos, inserted >>

-----------------------------------------------------------------------------
(* Integers as bit strings *)

Pow2(k) == 2 ^ k
\* (v >> k)
Shr(v, k) == v \div Pow2(k)
\* (v >> k) & 1
Bit(v, k) == Shr(v, k) % 2
\* v & (2^k - 1)
LowMask(v, k) == v % Pow2(k)

RECURSIVE PopCount(_)
\* bin(n).count('1')
PopCount(n) == IF n = 0 THEN 0 ELSE (n % 2) + PopCount(n \div 2)

RECURSIVE Digits(_, _, _)
\* The digits of n in the given base, most significant first, at least
\* `width` of them: format specs 0<width>b and 0<width>X.
Digits(n, base, width) ==
    IF n < base /\ width <= 1
    THEN << n >>
    ELSE Append(Digits(n \div base, base, width - 1), n % base)

DigitChar(d) ==
    << "0", "1", "2", "3", "4", "5", "6", "7",
       "8", "9", "A", "B", "C", "D", "E", "F" >>[d + 1]

FormatBin(n, width) ==
    LET ds == Digits(n, 2, width) IN [i \in 1..Len(ds) |-> DigitChar(ds[i])]

FormatHex(n, width) ==
    LET ds == Digits(n, 16, width) IN [i \in 1..Len(ds) |-> DigitChar(ds[i])]

-----------------------------------------------------------------------------
(* Hla._decode_channel *)

AnalyzerFrame(type, start_time, end_time, data) ==
    [type |-> type, start_time |-> start_time, end_time |-> end_time,
     data |-> data]

\* Mutant of Word: the first bit taken as the least significant.
RECURSIVE WordLsbFirst(_)
WordLsbFirst(bits) ==
    IF bits = << >> THEN 0 ELSE bits[1] + 2 * WordLsbFirst(Tail(bits))

RECURSIVE Word(_)
\* data_word = 0; for bit in bits: data_word = (data_word << 1) | bit
Word(bits) ==
    IF bits = << >>
    THEN 0
    ELSE 2 * Word(SubSeq(bits, 1, Len(bits) - 1)) + bits[Len(bits)]

\* Enhanced 18-bit mode: (data_word >> 19) & 1
IsEnhanced(data_word) == Bit(data_word, 19) = 1

\* Mutant of IsStandard: the header taken one bit too low.
IsStandardShift16(data_word) == LowMask(Shr(data_word, 16), 3) = 1

\* Standard 16-bit mode: (data_word >> 17) & 0b111 == 0b001
IsStandard(data_word) == LowMask(Shr(data_word, 17), 3) = 1

\* Mutant of ExpectedParity18: the polarity of the 16-bit mode.
ExpectedParity18Even(data_word) ==
    IF PopCount(Shr(data_word, 1)) % 2 # 0 THEN 1 ELSE 0

\* Odd parity: the parity bit makes the number of set bits odd.
ExpectedParity18(data_word) ==
    LET bits_for_parity_check == Shr(data_word, 1)
        num_set_bits == PopCount(bits_for_parity_check)
    IN  IF num_set_bits % 2 = 0 THEN 1 ELSE 0

\* Even parity: the parity bit makes the number of set bits even.
ExpectedParity16(data_word) ==
    LET bits_for_parity_check == Shr(data_word, 1)
        num_set_bits == PopCount(bits_for_parity_check)
    IN  IF num_set_bits % 2 # 0 THEN 1 ELSE 0

ParityStatus(parity_ok) == IF parity_ok THEN "OK" ELSE "FAIL"

\* Mutant of Frame18: the position masked as in the 16-bit mode.
Frame18Mask16(channel_name, data_word, start_time, end_time) ==
    LET header == Bit(data_word, 19)
        position == LowMask(Shr(data_word, 1), 16)
        received_parity == LowMask(data_word, 1)
        parity_ok == (received_parity = ExpectedParity18(data_word))
    IN  AnalyzerFrame("xy2_100_18bit", start_time, end_time,
            [channel |-> channel_name,
             header |-> << "0b" >> \o FormatBin(header, 1),
             position |-> << "0x" >> \o FormatHex(position, 5),
             parity_status |-> ParityStatus(parity_ok)])

Frame18(channel_name, data_word, start_time, end_time) ==
    LET header == Bit(data_word, 19)
        position == LowMask(Shr(data_word, 1), 18)
        received_parity == LowMask(data_word, 1)
        parity_ok == (received_parity = ExpectedParity18(data_word))
    IN  AnalyzerFrame("xy2_100_18bit", start_time, end_time,
            [channel |-> channel_name,
             header |-> << "0b" >> \o FormatBin(header, 1),
             position |-> << "0x" >> \o FormatHex(position, 5),
             parity_status |-> ParityStatus(parity_ok)])

Frame16(channel_name, data_word, start_time, end_time) ==
    LET header == LowMask(Shr(data_word, 17), 3)
        position == LowMask(Shr(data_word, 1), 16)
        received_parity == LowMask(data_word, 1)
        parity_ok == (received_parity = ExpectedParity16(data_word))
    IN  AnalyzerFrame("xy2_100_16bit", start_time, end_time,
            [channel |-> channel_name,
             header |-> << "0b" >> \o FormatBin(header, 3),
             position |-> << "0x" >> \o FormatHex(position, 4),
             parity_status |-> ParityStatus(parity_ok)])

\* Mutant of UnknownHeader: an error frame for an all-zero word too.
UnknownHeaderAlways(channel_name, data_word, start_time, end_time) ==
    Some(AnalyzerFrame("error", start_time, end_time,
            [error_message |->
                << "Invalid frame header for ", channel_name, ": 0b" >>
                \o FormatBin(Shr(data_word, 17), 3)]))

\* The header is not recognized: an error frame, if there was any activity.
UnknownHeader(channel_name, data_word, start_time, end_time) ==
    IF data_word # 0
    THEN Some(AnalyzerFrame("error", start_time, end_time,
            [error_message |->
                << "Invalid frame header for ", channel_name, ": 0b" >>
                \o FormatBin(Shr(data_word, 17), 3)]))
    ELSE None

_decode_channel(channel_name, bits, start_time, end_time) ==
    IF bits = << >>
    THEN None
    ELSE LET data_word == Word(bits)
         IN  IF IsEnhanced(data_word)
             THEN Some(Frame18(channel_name, data_word, start_time, end_time))
             ELSE IF IsStandard(data_word)
             THEN Some(Frame16(channel_name, data_word, start_time, end_time))
             ELSE UnknownHeader(channel_name, data_word, start_time, end_time)

-----------------------------------------------------------------------------
(* Hla.__init__ and Hla.decode *)

\* Mutant of NewHla: prev_sync_bit starts as 0 instead of None.
NewHlaSyncLow ==
    [state |-> "IDLE", frame_start_time |-> None, prev_sync_bit |-> Some(0),
     bits_x |-> << >>, bits_y |-> << >>, bits_z |-> << >>]

\* Hla.__init__
NewHla ==
    [state |-> "IDLE", frame_start_time |-> None, prev_sync_bit |-> None,
     bits_x |-> << >>, bits_y |-> << >>, bits_z |-> << >>]

\* An input frame of the Simple Parallel analyzer.  `data` is frame.data.get('data').
InputFrame(type, data, start_time, end_time) ==
    [type |-> type, data |-> data, start_time |-> start_time,
     end_time |-> end_time]

\* frame.type != 'data' or 'data' not in frame.data
\* Mutant of NotDataFrame: the type of the frame is not looked at.
NotDataFrameNoValue(frame) == frame.data = None

NotDataFrame(frame) == frame.type # "data" \/ frame.data = None

\* D0: X, D1: Y, D2: Z, D3: SYNC
x_bit(parallel_value) == Bit(parallel_value, 0)
y_bit(parallel_value) == Bit(parallel_value, 1)
z_bit(parallel_value) == Bit(parallel_value, 2)
sync_bit(parallel_value) == Bit(parallel_value, 3)

\* Mutant of RisingEdge: `or` for `and`.
RisingEdgeOr(sync, prev_sync_bit) == sync = 1 \/ prev_sync_bit = Some(0)

\* sync_bit == 1 and self.prev_sync_bit == 0
RisingEdge(sync, prev_sync_bit) == sync = 1 /\ prev_sync_bit = Some(0)

\* Mutant of StartFrame: the buffers are cleared, not seeded.
StartFrameUnseeded(self, frame) ==
    [self EXCEPT !.state = "COLLECTING",
                 !.bits_x = << >>, !.bits_y = << >>, !.bits_z = << >>,
                 !.frame_start_time = Some(frame.start_time)]

\* Mutant of StartFrame: a frame_start_time already set is kept.
StartFrameKeepTime(self, frame) ==
    LET v == frame.data[1]
    IN  [self EXCEPT !.state = "COLLECTING",
                     !.bits_x = << x_bit(v) >>,
                     !.bits_y = << y_bit(v) >>,
                     !.bits_z = << z_bit(v) >>,
                     !.frame_start_time =
                         IF @ = None THEN Some(frame.start_time) ELSE @]

\* Mutant of StartFrame: the frame starts at the end time of the sample.
StartFrameEndTime(self, frame) ==
    LET v == frame.data[1]
    IN  [self EXCEPT !.state = "COLLECTING",
                     !.bits_x = << x_bit(v) >>,
                     !.bits_y = << y_bit(v) >>,
                     !.bits_z = << z_bit(v) >>,
                     !.frame_start_time = Some(frame.end_time)]

\* IDLE, on a rising edge: the buffers are seeded with this sample's bits.
StartFrame(self, frame) ==
    LET v == frame.data[1]
    IN  [self EXCEPT !.state = "COLLECTING",
                     !.bits_x = << x_bit(v) >>,
                     !.bits_y = << y_bit(v) >>,
                     !.bits_z = << z_bit(v) >>,
                     !.frame_start_time = Some(frame.start_time)]

\* Mutant of AppendBits: a rising edge of SYNC starts the frame anew.
AppendBitsRestart(self, frame) ==
    LET v == frame.data[1]
    IN  IF RisingEdge(sync_bit(v), self.prev_sync_bit)
        THEN StartFrame(self, frame)
        ELSE [self EXCEPT !.bits_x = Append(@, x_bit(v)),
                          !.bits_y = Append(@, y_bit(v)),
                          !.bits_z = Append(@, z_bit(v))]

\* Mutant of AppendBits: nothing is appended to the buffer of Z.
AppendBitsNoZ(self, frame) ==
    LET v == frame.data[1]
    IN  [self EXCEPT !.bits_x = Append(@, x_bit(v)),
                     !.bits_y = Append(@, y_bit(v))]

\* COLLECTING: one bit more for each channel.
AppendBits(self, frame) ==
    LET v == frame.data[1]
    IN  [self EXCEPT !.bits_x = Append(@, x_bit(v)),
                     !.bits_y = Append(@, y_bit(v)),
                     !.bits_z = Append(@, z_bit(v))]

\* Mutants of FrameComplete: one bit early; one bit late.
FrameCompleteEarly(self) == Len(self.bits_x) = FrameBits - 1
FrameCompleteLate(self) == Len(self.bits_x) > FrameBits

\* len(self.bits_x) == 20
FrameComplete(self) == Len(self.bits_x) = FrameBits

\* Mutant of Slots: every channel is given the whole window.
SlotsWhole(frame_start_time, frame_end_time) ==
    [x_start |-> frame_start_time, x_end |-> frame_end_time,
     y_start |-> frame_start_time, y_end |-> frame_end_time,
     z_start |-> frame_start_time, z_end |-> frame_end_time]

\* Mutant of Slots: the window divided in two.
SlotsHalves(frame_start_time, frame_end_time) ==
    LET duration_per_channel == (frame_end_time - frame_start_time) \div 2
        x_end == frame_start_time + duration_per_channel
        y_end == x_end + duration_per_channel
    IN  [x_start |-> frame_start_time, x_end |-> x_end,
         y_start |-> x_end, y_end |-> y_end,
         z_start |-> y_end, z_end |-> frame_end_time]

\* Mutant of Slots: the slot of Y starts where that of X starts.
SlotsYFromStart(frame_start_time, frame_end_time) ==
    LET duration_per_channel ==
            (frame_end_time - frame_start_time) \div num_channels
        x_end == frame_start_time + duration_per_channel
        y_end == frame_start_time + duration_per_channel
    IN  [x_start |-> frame_start_time, x_end |-> x_end,
         y_start |-> frame_start_time, y_end |-> y_end,
         z_start |-> y_end, z_end |-> frame_end_time]

\* The frame window divided into one slot per channel.
Slots(frame_start_time, frame_end_time) ==
    LET duration == frame_end_time - frame_start_time
        duration_per_channel == duration \div num_channels
        x_start == frame_start_time
        x_end == x_start + duration_per_channel
        y_start == x_end
        y_end == y_start + duration_per_channel
        z_start == y_end
        z_end == frame_end_time
    IN  [x_start |-> x_start, x_end |-> x_end,
         y_start |-> y_start, y_end |-> y_end,
         z_start |-> z_start, z_end |-> z_end]

\* if f: output_frames.append(f)
Appended(output_frames, f) ==
    IF f # None THEN Append(output_frames, f[1]) ELSE output_frames

\* The records of a completed frame: X, Y, Z, each only if it decoded to one.
OutputFrames(self, frame) ==
    LET t == Slots(self.frame_start_time[1], frame.end_time)
        x_frame == _decode_channel("X", self.bits_x, t.x_start, t.x_end)
        y_frame == _decode_channel("Y", self.bits_y, t.y_start, t.y_end)
        z_frame == _decode_channel("Z", self.bits_z, t.z_start, t.z_end)
    IN  Appended(Appended(Appended(<< >>, x_frame), y_frame), z_frame)

\* Mutant of ResetFrame: the buffers are left as they are.
ResetFrameStateOnly(self) == [self EXCEPT !.state = "IDLE"]

\* Reset state for the next frame.
ResetFrame(self) ==
    [self EXCEPT !.state = "IDLE",
                 !.bits_x = << >>, !.bits_y = << >>, !.bits_z = << >>]

\* Mutant of SetPrevSync: the bit is kept only where the state is IDLE.
SetPrevSyncIdleOnly(self, sync) ==
    IF self.state = "IDLE"
    THEN [self EXCEPT !.prev_sync_bit = Some(sync)]
    ELSE self

\* self.prev_sync_bit = sync_bit
SetPrevSync(self, sync) == [self EXCEPT !.prev_sync_bit = Some(sync)]

\* Hla.decode: the instance after the call, and what the call returned.
decode(self, frame) ==
    IF NotDataFrame(frame)
    THEN [self |-> self, ret |-> None]
    ELSE
    LET sync == sync_bit(frame.data[1])
    IN  IF self.prev_sync_bit = None
        THEN [self |-> SetPrevSync(self, sync), ret |-> None]
        ELSE IF self.state = "IDLE"
        THEN IF RisingEdge(sync, self.prev_sync_bit)
             THEN [self |-> SetPrevSync(StartFrame(self, frame), sync),
                   ret |-> None]
             ELSE [self |-> SetPrevSync(self, sync), ret |-> None]
        ELSE IF self.state = "COLLECTING"
        THEN LET collected == AppendBits(self, frame)
             IN  IF FrameComplete(collected)
                 THEN [self |-> SetPrevSync(ResetFrame(collected), sync),
                       ret |-> Some(OutputFrames(collected, frame))]
                 ELSE [self |-> SetPrevSync(collected, sync), ret |-> None]
        ELSE [self |-> SetPrevSync(self, sync), ret |-> None]

-----------------------------------------------------------------------------
(* The event stream and its observer *)

Min(a, b) == IF a <= b THEN a ELSE b

\* A time of t ticks.
TimeOf(t) == t * num_channels

\* The data bits (D0..D2) of a parallel value.
DataBits(v) == v % 8

\* The number of bits that are 1 in a sequence of data values.
RECURSIVE Ones(_)
Ones(log) ==
    IF log = << >>
    THEN 0
    ELSE (log[1] % 2) + ((log[1] \div 2) % 2) + (log[1] \div 4)
         + Ones(Tail(log))

\* The observer's own reading of an event: a data sample carries a value.
IsSample(frame) == frame.type = "data" /\ frame.data # None
SampleSync(frame) == frame.data[1] \div 8

\* A SYNC rising edge: SYNC 1 with the previous data event's SYNC 0.
EdgeSeen(frame) ==
    IsSample(frame) /\ SampleSync(frame) = 1 /\ last_sync = Some(0)

\* A rising edge that arrives while the instance is IDLE.
StartSeen(frame) == EdgeSeen(frame) /\ hla.state = "IDLE"

\* The frames a call emitted: none when it returned None.
Emitted(r) == IF r = None THEN << >> ELSE r[1]

Max(a, b) == IF a >= b THEN a ELSE b

\* The latest end time among `frames` and `so_far`.
RECURSIVE LatestEnd(_, _)
LatestEnd(frames, so_far) ==
    IF frames = << >>
    THEN so_far
    ELSE LatestEnd(Tail(frames), Max(so_far, frames[1].end_time))

\* A stream of back-to-back frames: a sample with SYNC = 0, then frames of
\* FrameBits samples each, SYNC being 1 on all but the last sample of a frame.
\* The position is 0 before the stream, FrameBits on its first sample,
\* FrameBits + k on the k-th sample of the first frame and 2 FrameBits + k on
\* the k-th sample of a later frame; -1 once a sample departed from this.
StreamNext(pos, sync) ==
    IF pos = -1 THEN -1
    ELSE LET next == IF pos = 3 * FrameBits THEN 2 * FrameBits + 1
                     ELSE IF pos = 0 THEN FrameBits
                     ELSE pos + 1
         IN  IF sync = (IF next % FrameBits = 0 THEN 0 ELSE 1)
             THEN next
             ELSE -1

NoLog == [count |-> 0, values |-> << >>]

\* The log of the frame window: it is kept up to FrameBits events and only
\* counted (count = FrameBits + 1) beyond.
LogNext(frame) ==
    IF ~IsSample(frame) THEN start_log
    ELSE IF StartSeen(frame)
    THEN [count |-> 1, values |-> << DataBits(frame.data[1]) >>]
    ELSE IF start_log.count = 0 THEN start_log
    ELSE IF start_log.count >= FrameBits
    THEN [count |-> FrameBits + 1, values |-> << >>]
    ELSE [count |-> start_log.count + 1,
          values |-> Append(start_log.values, DataBits(frame.data[1]))]

ObserverNext(frame) ==
    /\ n_data' = IF IsSample(frame) THEN Min(n_data + 1, 2) ELSE n_data
    /\ seen_low' = IF IsSample(frame) /\ SampleSync(frame) = 0 THEN TRUE
                   ELSE seen_low
    /\ last_sync' = IF IsSample(frame) THEN Some(SampleSync(frame))
                    ELSE last_sync
    /\ latest_edge' =
          IF StartSeen(frame) THEN "start"
          ELSE IF EdgeSeen(frame) THEN "inside"
          ELSE latest_edge
    /\ start_log' = LogNext(frame)
    /\ window_start' = IF StartSeen(frame) THEN Some(frame.start_time)
                     ELSE window_start
    /\ clock' = frame.end_time
    /\ done_end' = LatestEnd(Emitted(ret), done_end)
    /\ stream_pos' = IF IsSample(frame)
                     THEN StreamNext(stream_pos, SampleSync(frame))
                     ELSE stream_pos

Ticks == 0..MaxTick

\* The events the host can deliver next: time does not run backwards, and the
\* data bits of a frame window are within the bounds MaxOnes and LowBits.
DataFrames ==
    { InputFrame("data", Some(v), TimeOf(s), TimeOf(e)) :
        v \in 0..15, s \in Ticks, e \in Ticks }

OtherFrames ==
    { InputFrame("data", None, TimeOf(s), TimeOf(e)) : s \in Ticks, e \in Ticks }
    \cup
    { InputFrame("other", Some(15), TimeOf(s), TimeOf(e)) :
        s \in Ticks, e \in Ticks }

InTime(frame) == clock <= frame.start_time /\ frame.start_time <= frame.end_time

InBudget(frame) ==
    IF ~IsSample(frame) THEN TRUE
    ELSE IF DataBits(frame.data[1]) = 0 THEN TRUE
    ELSE IF StartSeen(frame)
    THEN Ones(<< DataBits(frame.data[1]) >>) <= MaxOnes
    ELSE IF start_log.count = 0 THEN TRUE
    ELSE IF start_log.count >= FrameBits THEN TRUE
    ELSE IF Ones(Append(start_log.values, DataBits(frame.data[1]))) > MaxOnes
    THEN FALSE
    ELSE IF start_log.count < HeaderBits THEN TRUE
    ELSE start_log.count >= FrameBits - LowBits

Admitted(frame) == InTime(frame) /\ InBudget(frame)

Channels == << "X", "Y", "Z" >>

\* The bits of a 20-bit word, most significant first.
WordBits(w) == [i \in 1..FrameBits |-> (w \div 2 ^ (FrameBits - i)) % 2]

\* The words handed to _decode_channel on its own: any header, the bits
\* between header and low bits all 0 or all 1, any low bits.
DecodeWords ==
    { h * 2 ^ (FrameBits - HeaderBits) + m * (2 ^ (FrameBits - HeaderBits) - 2 ^ DecodeLowBits) + l :
        h \in 0..(2 ^ HeaderBits - 1), m \in 0..1, l \in 0..(2 ^ DecodeLowBits - 1) }

\* A call of _decode_channel on the bits of `word`, not made yet.
NewCall(word, channel, s, e) ==
    [word |-> word, bits |-> WordBits(word), channel |-> channel,
     start_time |-> s, end_time |-> e,
     done |-> FALSE, result |-> None, flipped |-> FALSE, prior |-> None]

ObserverInit ==
    /\ n_data = 0
    /\ seen_low = FALSE
    /\ last_sync = None
    /\ latest_edge = "none"
    /\ start_log = NoLog
    /\ window_start = None
    /\ clock = 0
    /\ done_end = 0
    /\ stream_pos = 0
    /\ inserted = "no"

Init ==
    /\ hla = NewHla
    /\ ret = None
    /\ twin = NewHla
    /\ twin_ret = None
    /\ call = NewCall(0, "X", 0, 0)
    /\ ObserverInit

\* The host calls hla.decode(frame).
Decode(frame) ==
    /\ Admitted(frame)
    /\ LET r == decode(hla, frame)
       IN  hla' = r.self /\ ret' = r.ret
    /\ ObserverNext(frame)
    /\ UNCHANGED << twin, twin_ret, call, inserted >>

\* Framing and classification: any SYNC and data bits within the bounds,
\* while time stands still.
StillFrames ==
    { frame \in DataFrames \cup OtherFrames :
        frame.start_time = 0 /\ frame.end_time = 0 }

Next == \E frame \in StillFrames : Decode(frame)

Spec == Init /\ [][Next]_vars

\* Timestamps: any times that do not run backwards, any SYNC bits, and
\* data bits on Z alone or on the three channels alike.
TimedFrames ==
    { frame \in DataFrames \cup OtherFrames :
        IsSample(frame) => DataBits(frame.data[1]) \in {0, 4, 7} }

NextTime == \E frame \in TimedFrames : Decode(frame)

SpecTime == Init /\ [][NextTime]_vars

-----------------------------------------------------------------------------
(* Two instances on one stream, the second with extra events inserted *)

\* Here time stands still and the three channels carry the same bit.
InsFrames ==
    { frame \in StillFrames :
        IsSample(frame) => DataBits(frame.data[1]) \in {0, 7} }

\* The bounds MaxOnes and LowBits, for the frame window twin is collecting.
TwinInBudget(frame) ==
    IF ~IsSample(frame) THEN TRUE
    ELSE IF DataBits(frame.data[1]) = 0 THEN TRUE
    ELSE IF twin.state # "COLLECTING" THEN TRUE
    ELSE IF Ones(twin.bits_x \o twin.bits_y \o twin.bits_z)
            + Ones(<< DataBits(frame.data[1]) >>) > MaxOnes
    THEN FALSE
    ELSE IF Len(twin.bits_x) < HeaderBits THEN TRUE
    ELSE Len(twin.bits_x) >= FrameBits - LowBits

\* The host delivers the same frame to both instances.
Both(frame) ==
    /\ Admitted(frame)
    /\ TwinInBudget(frame)
    /\ LET r == decode(hla, frame)
       IN  hla' = r.self /\ ret' = r.ret
    /\ LET r == decode(twin, frame)
       IN  twin' = r.self /\ twin_ret' = r.ret
    /\ ObserverNext(frame)
    /\ UNCHANGED << call, inserted >>

\* An extra data event with SYNC = 0 reaches twin alone, while twin is IDLE.
Insert(frame) ==
    /\ IsSample(frame)
    /\ SampleSync(frame) = 0
    /\ twin.state = "IDLE"
    /\ LET r == decode(twin, frame)
       IN  twin' = r.self /\ twin_ret' = r.ret
    /\ ret' = None
    /\ inserted' = IF twin.prev_sync_bit # Some(0) THEN "other"
                   ELSE IF inserted = "no" THEN "after_low"
                   ELSE inserted
    /\ UNCHANGED << hla, call, n_data, seen_low, last_sync, latest_edge,
                    start_log, window_start, clock, done_end, stream_pos >>

NextIns ==
    \/ \E frame \in InsFrames : Both(frame)
    \/ \E frame \in InsFrames : Insert(frame)

SpecIns == Init /\ [][NextIns]_vars

-----------------------------------------------------------------------------
(* Two instances on one stream, the second with events that are not data
   samples interleaved *)

\* The data samples of the stream: the three channels carry the same bit.
SampleFrames ==
    { frame \in DataFrames : DataBits(frame.data[1]) \in {0, 7} }

\* An event that is not a data sample reaches twin alone.
Skip(frame) ==
    /\ InTime(frame)
    /\ LET r == decode(twin, frame)
       IN  twin' = r.self /\ twin_ret' = r.ret
    /\ ret' = None
    /\ clock' = frame.end_time
    /\ done_end' = LatestEnd(Emitted(ret), done_end)
    /\ stream_pos' = stream_pos
    /\ inserted' = IF twin.prev_sync_bit = None THEN "at_first"
                   ELSE IF twin.state = "COLLECTING" THEN "in_frame"
                   ELSE "in_idle"
    /\ UNCHANGED << hla, call, n_data, seen_low, last_sync, latest_edge,
                    start_log, window_start >>

NextSkip ==
    \/ \E frame \in SampleFrames : Both(frame)
    \/ \E frame \in OtherFrames : Skip(frame)

SpecSkip == Init /\ [][NextSkip]_vars

-----------------------------------------------------------------------------
(* _decode_channel on its own *)

InitDecode ==
    /\ hla = NewHla
    /\ ret = None
    /\ twin = NewHla
    /\ twin_ret = None
    /\ call \in { NewCall(w, Channels[c], TimeOf(s), TimeOf(e)) :
                    w \in DecodeWords, c \in 1..3, s \in {0}, e \in Ticks }
    /\ ObserverInit

\* The call is made.
DecodeChannel ==
    /\ ~call.done
    /\ call' = [call EXCEPT
                  !.done = TRUE,
                  !.result = _decode_channel(call.channel, call.bits,
                                             call.start_time, call.end_time)]
    /\ UNCHANGED << hla, ret, twin, twin_ret, n_data, seen_low, last_sync,
                    latest_edge, start_log, window_start, clock, done_end,
                    stream_pos, inserted >>

\* The same call once more, on the word with its bit 0 flipped.
FlipParity ==
    /\ call.done
    /\ ~call.flipped
    /\ LET flipped == IF call.word % 2 = 0 THEN call.word + 1
                      ELSE call.word - 1
       IN  call' = [call EXCEPT
                      !.word = flipped,
                      !.bits = WordBits(flipped),
                      !.done = FALSE,
                      !.flipped = TRUE,
                      !.prior = Some([word |-> call.word,
                                      result |-> call.result])]
    /\ UNCHANGED << hla, ret, twin, twin_ret, n_data, seen_low, last_sync,
                    latest_edge, start_log, window_start, clock, done_end,
                    stream_pos, inserted >>

NextDecode == DecodeChannel \/ FlipParity

SpecDecode == InitDecode /\ [][NextDecode]_vars

-----------------------------------------------------------------------------
(* What the claims are stated with *)

\* The call returned a list with at least one frame in it.
HasFrames(r) == r # None /\ r[1] # << >>

\* A batch of records without their times.
Untimed(frames) ==
    [i \in 1..Len(frames) |-> [type |-> frames[i].type, data |-> frames[i].data]]

\* The bits of data line k (0: X, 1: Y, 2: Z) in a log of data values.
Lane(values, k) == [i \in 1..Len(values) |-> (values[i] \div 2 ^ k) % 2]

\* The records the three words spelled by a log decode to, without times.
BatchOf(values) ==
    Untimed(_decode_channel("X", Lane(values, 0), 0, 0)
            \o _decode_channel("Y", Lane(values, 1), 0, 0)
            \o _decode_channel("Z", Lane(values, 2), 0, 0))

\* The channel a record is about.
ChannelOf(frame) ==
    IF frame.type = "error" THEN frame.data.error_message[2]
    ELSE frame.data.channel

\* The position of a record's channel in the order X, Y, Z, from 0.
ChannelIndex(frame) ==
    CHOOSE k \in 0..2 : Channels[k + 1] = ChannelOf(frame)

ChannelsOf(frames) == [i \in 1..Len(frames) |-> ChannelOf(frames[i])]

\* The channels, in the order X, Y, Z, whose line was 1 in some logged event.
ActiveChannels(values) ==
    LET Keep(k) == IF \E i \in 1..Len(values) : Lane(values, k)[i] = 1
                   THEN << Channels[k + 1] >> ELSE << >>
    IN  Keep(0) \o Keep(1) \o Keep(2)

BuffersEmpty(self) ==
    self.bits_x = << >> /\ self.bits_y = << >> /\ self.bits_z = << >>

-----------------------------------------------------------------------------
(* C1 *)

\* C1, as amended: whenever decode returns at least one frame, the event is
\* the 20th data event counting from, and including, the SYNC rising edge
\* that opened the frame window (the latest rising edge seen in IDLE), and
\* the records are those of the words spelled by the data bits of exactly
\* those 20 events.
C1_TwentyFromStart ==
    HasFrames(ret) =>
        /\ start_log.count = FrameBits
        /\ Untimed(ret[1]) = BatchOf(start_log.values)

\* C1, as claimed: the count is from the most recent SYNC rising edge of the
\* stream, so that edge is the one that opened the window.
C1_TwentyFromLatestEdge ==
    HasFrames(ret) =>
        /\ latest_edge = "start"
        /\ start_log.count = FrameBits
        /\ Untimed(ret[1]) = BatchOf(start_log.values)

\* A frame is returned although SYNC rose again inside its window.
C1_Witness ==
    /\ HasFrames(ret)
    /\ latest_edge = "inside"
    /\ start_log.count = FrameBits

-----------------------------------------------------------------------------
(* C2 *)

\* C2, as amended: extra data events with SYNC = 0, inserted where the
\* instance is IDLE and the SYNC bit of the data event before was 0, leave
\* what every later event returns unchanged (and return nothing themselves).
C2_InsertAfterLow == inserted # "other" => Emitted(twin_ret) = Emitted(ret)

\* C2, as claimed: the same for an insertion at any point where the instance
\* is IDLE, before the first event and right after a frame included.
C2_InsertAnywhereInIdle == Emitted(twin_ret) = Emitted(ret)

\* After an insertion, a frame is returned by both instances alike.
C2_Witness ==
    /\ inserted = "after_low"
    /\ HasFrames(ret)
    /\ Emitted(twin_ret) = Emitted(ret)

-----------------------------------------------------------------------------
(* C3 *)

-----------------------------------------------------------------------------
(* C4 *)

\* The outcome of a call of _decode_channel.
Outcome(result) == IF result = None THEN "none" ELSE result[1].type

\* The outcome the claim gives a word, from its bits 19..17 and w = 0.
ClaimedOutcome(w) ==
    IF w \div 2 ^ 19 = 1 THEN "xy2_100_18bit"
    ELSE IF w \div 2 ^ 17 = 1 THEN "xy2_100_16bit"
    ELSE IF w # 0 THEN "error"
    ELSE "none"

\* C4: _decode_channel on a 20-bit word gives one of an 18-bit frame, a
\* 16-bit frame, an error frame or no record: bit 19 = 1 gives 18-bit, bits
\* 19..17 = 001 give 16-bit, otherwise a non-zero word gives an error frame
\* and the zero word no record.
C4_ClassificationTotal ==
    call.done =>
        /\ Len(call.result) <= 1
        /\ Outcome(call.result) = ClaimedOutcome(call.word)

\* An error frame for a non-zero word whose bits 19..17 are 000.
C4_Witness ==
    /\ call.done
    /\ call.word # 0
    /\ call.word < 2 ^ 17
    /\ Outcome(call.result) = "error"

-----------------------------------------------------------------------------
(* C5 *)

\* The parity the claim asks of a word: 18-bit mode with an odd number of
\* set bits, or 16-bit mode with an even number.
ParityPerRule(w) ==
    LET set_bits == Ones(WordBits(w))
    IN  \/ w \div 2 ^ 19 = 1 /\ set_bits % 2 = 1
        \/ w \div 2 ^ 17 = 1 /\ set_bits % 2 = 0

\* C5: such a word decodes to a record with parity status OK, and the word
\* with bit 0 alone flipped to the same record with parity status FAIL.
C5_ParityRoundTrip ==
    call.done /\ call.flipped /\ ParityPerRule(call.prior[1].word) =>
        LET before == call.prior[1].result
            after == call.result
        IN  /\ before # None
            /\ after # None
            /\ before[1].data.parity_status = "OK"
            /\ after[1] = [before[1] EXCEPT !.data.parity_status = "FAIL"]

\* A 16-bit word of even parity, decoded before and after the flip.
C5_Witness ==
    /\ call.done
    /\ call.flipped
    /\ ParityPerRule(call.prior[1].word)
    /\ call.result[1].type = "xy2_100_16bit"
    /\ call.result[1].data.parity_status = "FAIL"

-----------------------------------------------------------------------------
(* C6 *)

\* C6: decode returns nothing on an event that leaves a frame partly
\* collected, and on any event that is not the 20th of a frame window: a
\* window cut short by the end of the stream yields no output.
C6_NoPartialFrame ==
    /\ hla.state = "COLLECTING" => ret = None
    /\ start_log.count # FrameBits => ret = None

\* 19 events of a window with a data bit set, and nothing returned.
C6_Witness ==
    /\ hla.state = "COLLECTING"
    /\ start_log.count = FrameBits - 1
    /\ Ones(start_log.values) > 0
    /\ ret = None

-----------------------------------------------------------------------------
(* C7 *)

\* C7: after the first data event of a fresh instance decode has returned
\* nothing, the state is IDLE, the buffers are empty, frame_start_time is
\* unset and prev_sync_bit is that event's SYNC bit; and as long as no data
\* event had SYNC = 0, no frame is started.
C7_FirstEvent ==
    /\ n_data = 1 =>
          /\ ret = None
          /\ hla.state = "IDLE"
          /\ BuffersEmpty(hla)
          /\ hla.frame_start_time = None
          /\ hla.prev_sync_bit = last_sync
    /\ ~seen_low =>
          /\ hla.state = "IDLE"
          /\ BuffersEmpty(hla)
          /\ hla.frame_start_time = None

\* A capture that begins with SYNC high, two data events in.
C7_Witness ==
    /\ n_data = 2
    /\ ~seen_low
    /\ hla.prev_sync_bit = Some(1)

-----------------------------------------------------------------------------
(* C8 *)

\* C8: after the event that completes a frame, whatever its channels decoded
\* to, the state is IDLE and the three buffers are empty.
C8_ResetAfterFrame ==
    start_log.count = FrameBits \/ ret # None =>
        hla.state = "IDLE" /\ BuffersEmpty(hla)

\* A completed frame with an error frame, a parity failure and a dropped word.
C8_Witness ==
    /\ ret # None
    /\ Len(ret[1]) = 2
    /\ ret[1][1].type = "error"
    /\ ret[1][2].type # "error"
    /\ ret[1][2].data.parity_status = "FAIL"

-----------------------------------------------------------------------------
(* C9 *)

\* C9: the instance is always in one of its two states, with what the
\* completion of a frame reads in place, and it is COLLECTING only for the
\* 1st to 19th data event of a frame window: the 19th data event after the
\* one that started the frame at the latest brings it back to IDLE.
C9_BackToIdle ==
    /\ hla.state \in {"IDLE", "COLLECTING"}
    /\ hla.state = "COLLECTING" =>
          /\ hla.frame_start_time # None
          /\ start_log.count >= 1
          /\ start_log.count <= FrameBits - 1
          /\ Len(hla.bits_x) = start_log.count

\* COLLECTING on the 19th event of a window, SYNC having risen inside it.
C9_Witness ==
    /\ hla.state = "COLLECTING"
    /\ start_log.count = FrameBits - 1
    /\ latest_edge = "inside"

-----------------------------------------------------------------------------
(* C10 *)

\* C10: the batch of a completed frame holds, in the order X, Y, Z, exactly
\* one record for each channel whose word is not zero and none for a channel
\* whose word is zero.
C10_BatchChannels ==
    ret # None =>
        /\ start_log.count = FrameBits
        /\ ChannelsOf(ret[1]) = ActiveChannels(start_log.values)

\* X and Z yield a record while the word of Y is zero.
C10_Witness ==
    /\ ret # None
    /\ ChannelsOf(ret[1]) = << "X", "Z" >>

-----------------------------------------------------------------------------
(* C11 *)

-----------------------------------------------------------------------------
(* C12 *)

\* Record a ends no later than record b starts.
Before(a, b) == a.end_time <= b.start_time

SameInterval(a, b) ==
    a.start_time = b.start_time /\ a.end_time = b.end_time

\* C12, as amended: the records of a batch are in the order of their times,
\* each ending no later than the next starts; when the completing event ends
\* after the rising-edge event starts, each record lasts a positive time and
\* no two records of the batch have the same interval.
C12_DistinctInOpenWindow ==
    ret # None =>
        /\ \A i \in 1..Len(ret[1]) :
              /\ ret[1][i].start_time <= ret[1][i].end_time
              /\ clock > window_start[1] =>
                    ret[1][i].start_time < ret[1][i].end_time
        /\ \A i, j \in 1..Len(ret[1]) :
              i < j =>
                  /\ Before(ret[1][i], ret[1][j])
                  /\ clock > window_start[1] =>
                        ~SameInterval(ret[1][i], ret[1][j])

\* C12, as claimed: the same whenever the times of the events do not
\* decrease, a window of no duration included.
C12_DistinctIntervals ==
    ret # None =>
        \A i, j \in 1..Len(ret[1]) :
            i < j =>
                /\ Before(ret[1][i], ret[1][j])
                /\ ~SameInterval(ret[1][i], ret[1][j])

\* Records for X, Y and Z, that of X ending before that of Z starts.
C12_Witness ==
    /\ ret # None
    /\ ChannelsOf(ret[1]) = << "X", "Y", "Z" >>
    /\ ret[1][1].end_time < ret[1][3].start_time

-----------------------------------------------------------------------------
(* C13 *)

\* The digit a character stands for.
CharDigit(c) == CHOOSE d \in 0..15 : DigitChar(d) = c

\* The number a sequence of digit characters spells in the given base.
RECURSIVE Spelled(_, _)
Spelled(chars, base) ==
    IF chars = << >>
    THEN 0
    ELSE base * Spelled(SubSeq(chars, 1, Len(chars) - 1), base)
         + CharDigit(chars[Len(chars)])

\* The digits of a formatted field, after its "0b" or "0x".
FieldDigits(field) == Tail(field)

\* The raw header an error message ends with.
RawHeader(error_message) == SubSeq(error_message, 4, Len(error_message))

\* C13: for a 20-bit word w, an 18-bit record has header 1 and as position
\* bits 18..1 of w, a value in 0..2^18-1; a 16-bit record has header 0b001
\* and as position bits 16..1 of w, a value in 0..2^16-1; an error record
\* reports bits 19..17 of w, which are one of 000, 010, 011.
C13_FieldExtraction ==
    call.done /\ call.result # None =>
        LET r == call.result[1]
            w == call.word
        IN  IF r.type = "xy2_100_18bit"
            THEN LET position == Spelled(FieldDigits(r.data.position), 16)
                 IN  /\ Spelled(FieldDigits(r.data.header), 2) = 1
                     /\ position = (w % 2 ^ 19) \div 2
                     /\ position \in 0..(2 ^ 18 - 1)
            ELSE IF r.type = "xy2_100_16bit"
            THEN LET position == Spelled(FieldDigits(r.data.position), 16)
                 IN  /\ FieldDigits(r.data.header) = << "0", "0", "1" >>
                     /\ position = (w % 2 ^ 17) \div 2
                     /\ position \in 0..(2 ^ 16 - 1)
            ELSE /\ r.type = "error"
                 /\ Len(RawHeader(r.data.error_message)) = 3
                 /\ Spelled(RawHeader(r.data.error_message), 2) = w \div 2 ^ 17
                 /\ RawHeader(r.data.error_message) \in
                       { << "0", "0", "0" >>, << "0", "1", "0" >>,
                         << "0", "1", "1" >> }

\* An 18-bit record of a word whose bits 18 and 17 are set.
C13_Witness ==
    /\ call.done
    /\ call.word \div 2 ^ 17 = 7
    /\ call.result # None
    /\ call.result[1].type = "xy2_100_18bit"
    /\ Spelled(FieldDigits(call.result[1].data.position), 16) >= 2 ^ 17

-----------------------------------------------------------------------------
(* C14 *)

\* The records of a batch that are about the k-th channel (k from 0).
RecordsOf(frames, k) ==
    { i \in 1..Len(frames) : ChannelIndex(frames[i]) = k }

\* What a record shows of the word it was decoded from, against the data
\* bits `lane` of its channel on the 20 events of the window: lane[1] is the
\* bit on the rising-edge event, lane[k + 1] the bit on the k-th event after.
ShowsLane(r, lane) ==
    IF r.type = "xy2_100_18bit"
    THEN LET position == Spelled(FieldDigits(r.data.position), 16)
         IN  /\ lane[1] = 1
             /\ \A k \in 1..18 : Bit(position, 18 - k) = lane[k + 1]
             /\ r.data.parity_status = "OK" <=> Ones(lane) % 2 = 1
    ELSE IF r.type = "xy2_100_16bit"
    THEN LET position == Spelled(FieldDigits(r.data.position), 16)
         IN  /\ SubSeq(lane, 1, 3) = << 0, 0, 1 >>
             /\ \A k \in 3..18 : Bit(position, 18 - k) = lane[k + 1]
             /\ r.data.parity_status = "OK" <=> Ones(lane) % 2 = 0
    ELSE LET raw == RawHeader(r.data.error_message)
         IN  \A k \in 0..2 : CharDigit(raw[k + 1]) = lane[k + 1]

\* C14: while a frame is collected, the buffer of each channel holds the
\* data bits of that channel on the events of the window, that of the
\* rising-edge event first; in the word a record is decoded from, bit 19 is
\* the bit on the rising-edge event, bit 19 - k the bit on the k-th event
\* after it and bit 0, the received parity, the bit on the completing event;
\* a channel is decoded as 18-bit exactly when its bit on the rising-edge
\* event is 1.
C14_MsbFirstFromEdge ==
    /\ hla.state = "COLLECTING" =>
          /\ hla.bits_x = Lane(start_log.values, 0)
          /\ hla.bits_y = Lane(start_log.values, 1)
          /\ hla.bits_z = Lane(start_log.values, 2)
    /\ ret # None =>
          \A k \in 0..2 :
              LET lane == Lane(start_log.values, k)
              IN  /\ Len(lane) = FrameBits
                  /\ \A i \in RecordsOf(ret[1], k) : ShowsLane(ret[1][i], lane)
                  /\ lane[1] = 1 <=>
                        \E i \in RecordsOf(ret[1], k) :
                            ret[1][i].type = "xy2_100_18bit"

\* An 18-bit record for X whose position shows the bit of the first event
\* after the edge and that of the last event before the completing one.
C14_Witness ==
    /\ ret # None
    /\ Len(ret[1]) = 1
    /\ ret[1][1].type = "xy2_100_18bit"
    /\ Lane(start_log.values, 0)[2] = 1
    /\ Lane(start_log.values, 0)[FrameBits - 1] = 1

-----------------------------------------------------------------------------
(* C15 *)

\* C15: an instance that is also given events that are not data samples
\* (another type, or no 'data' value), before its first data event, while
\* IDLE and in the middle of a frame, is after every event in the state of
\* the instance given the data events alone (state, prev_sync_bit,
\* frame_start_time and the three buffers), returns nothing on such an event
\* and on every data event what that instance returns.
C15_NotDataIgnored ==
    /\ twin = hla
    /\ twin_ret = ret

\* A frame is returned after an event that is not a data sample came in the
\* middle of a frame.
C15_Witness ==
    /\ inserted = "in_frame"
    /\ HasFrames(twin_ret)
    /\ start_log.count = FrameBits
    /\ clock > window_start[1]

-----------------------------------------------------------------------------
(* C16 *)

\* C16: prev_sync_bit is unset until the first data event and from then on
\* the SYNC bit of the latest data event, whatever that event did: set the
\* baseline, found an edge in IDLE or none, added to a frame or completed it.
C16_PrevSyncIsLatest ==
    /\ hla.prev_sync_bit = last_sync
    /\ n_data = 0 <=> hla.prev_sync_bit = None

\* A frame was completed by an event with SYNC = 0 after SYNC had been 1.
C16_Witness ==
    /\ ret # None
    /\ start_log.count = FrameBits
    /\ last_sync = Some(0)
    /\ hla.prev_sync_bit = Some(0)

-----------------------------------------------------------------------------
(* C17 *)

\* C17: from IDLE, a data event with SYNC = 1 that follows a data event with
\* SYNC = 0 brings the instance to COLLECTING, each buffer holding the one
\* data bit of that event for its channel and frame_start_time being the
\* start time of that event; any other event leaves it IDLE, the buffers
\* empty and frame_start_time as it was.
C17_IdleToCollecting ==
    [][hla.state = "IDLE" =>
          IF last_sync = Some(0) /\ last_sync' = Some(1)
          THEN /\ hla'.state = "COLLECTING"
               /\ start_log'.count = 1
               /\ hla'.bits_x = Lane(start_log'.values, 0)
               /\ hla'.bits_y = Lane(start_log'.values, 1)
               /\ hla'.bits_z = Lane(start_log'.values, 2)
               /\ hla'.frame_start_time = window_start'
          ELSE /\ hla'.state = "IDLE"
               /\ BuffersEmpty(hla')
               /\ hla'.frame_start_time = hla.frame_start_time]_vars

\* A frame was started by an event that begins after time 0 and ends later
\* than it begins, with data on the three channels.
C17_Witness ==
    /\ hla.state = "COLLECTING"
    /\ hla.bits_x = << 1 >>
    /\ hla.bits_z = << 1 >>
    /\ hla.frame_start_time # None
    /\ hla.frame_start_time[1] > 0
    /\ clock > hla.frame_start_time[1]

-----------------------------------------------------------------------------
(* C18 *)

\* C18: between events the three buffers have the same length, which is 0
\* in IDLE and from 1 to 19 in COLLECTING.
C18_BuffersInStep ==
    /\ Len(hla.bits_x) = Len(hla.bits_y)
    /\ Len(hla.bits_y) = Len(hla.bits_z)
    /\ hla.state = "IDLE" => Len(hla.bits_x) = 0
    /\ hla.state = "COLLECTING" =>
          Len(hla.bits_x) >= 1 /\ Len(hla.bits_x) <= FrameBits - 1

\* The three buffers hold 19 bits each, and not the same bits.
C18_Witness ==
    /\ hla.state = "COLLECTING"
    /\ Len(hla.bits_x) = FrameBits - 1
    /\ Len(hla.bits_z) = FrameBits - 1
    /\ hla.bits_x # hla.bits_z

-----------------------------------------------------------------------------
(* C19 *)

\* The place of the latest sample in its frame, from 1 to FrameBits, in a
\* stream of back-to-back frames.
PlaceInFrame(pos) == ((pos - 1) % FrameBits) + 1

\* On a stream of back-to-back frames each sample but the first belongs to
\* a frame that is being collected or was just completed.
StreamInFrame ==
    stream_pos > FrameBits =>
        LET k == PlaceInFrame(stream_pos)
        IN  /\ start_log.count = k
            /\ IF k = FrameBits
               THEN hla.state = "IDLE"
               ELSE hla.state = "COLLECTING" /\ Len(hla.bits_x) = k

\* On such a stream the last sample of every frame, and no other, returns
\* a batch.
StreamStep ==
    stream_pos' # stream_pos /\ stream_pos' > FrameBits =>
        (ret' # None <=> PlaceInFrame(stream_pos') = FrameBits)

\* A data event with SYNC = 1 right after a completing event with SYNC = 0
\* starts a frame.
EdgeAfterFrame ==
    /\ start_log.count = FrameBits
    /\ last_sync = Some(0)
    /\ last_sync' = Some(1)
    => /\ hla'.state = "COLLECTING"
       /\ Len(hla'.bits_x) = 1
       /\ start_log'.count = 1

\* A rising edge of SYNC while COLLECTING starts no frame: the event adds
\* its bits to the frame under way, which it completes if they are the 20th.
EdgeInFrame ==
    /\ hla.state = "COLLECTING"
    /\ last_sync = Some(0)
    /\ last_sync' = Some(1)
    => /\ hla'.frame_start_time = hla.frame_start_time
       /\ IF Len(hla.bits_x) = FrameBits - 1
          THEN /\ hla'.state = "IDLE"
               /\ BuffersEmpty(hla')
               /\ ret' # None
          ELSE /\ hla'.state = "COLLECTING"
               /\ Len(hla'.bits_x) = Len(hla.bits_x) + 1
               /\ SubSeq(hla'.bits_x, 1, Len(hla.bits_x)) = hla.bits_x
               /\ ret' = None

\* C19: when the event that completes a frame has SYNC = 0 and the next data
\* event SYNC = 1, that event starts a frame, so that a stream in which SYNC
\* is 1 on the first 19 samples of every frame and 0 on the 20th completes
\* one frame every 20 data events; a rising edge of SYNC while COLLECTING,
\* the completing event included, starts no frame.
C19_BackToBack ==
    /\ []StreamInFrame
    /\ [][StreamStep /\ EdgeAfterFrame /\ EdgeInFrame]_vars

\* The second of two back-to-back frames is completed, with records.
C19_Witness ==
    /\ stream_pos = 3 * FrameBits
    /\ HasFrames(ret)
    /\ hla.state = "IDLE"

-----------------------------------------------------------------------------
(* C20 *)

\* C20: when no event ends before it starts or starts before the event
\* before it ends, every record returned starts no later than it ends, and
\* no earlier than the end of any record returned by an earlier call.
C20_InOrder ==
    \A i \in 1..Len(Emitted(ret)) :
        /\ Emitted(ret)[i].start_time <= Emitted(ret)[i].end_time
        /\ done_end <= Emitted(ret)[i].start_time

\* Three records of a window that is not empty, after a batch that ended
\* later than time 0.
C20_Witness ==
    /\ ret # None
    /\ Len(ret[1]) = 3
    /\ done_end > 0
    /\ ret[1][1].start_time < ret[1][3].end_time

====
